---- MODULE Spec2Model ----
(***************************************************************************)
(* A model of burl, the command line HTTP client example of http_io        *)
(* (example/client/burl/main.cpp).                                         *)
(*                                                                         *)
(* Two parts of the program are modelled:                                  *)
(*   - multipart_form and multipart_form::source, the resumable producer   *)
(*     of a multipart/form-data body (specification SpecMP);               *)
(*   - create_request and the coroutine request, which sends a request     *)
(*     and follows redirects (specification SpecReq).                      *)
(* Strings are sequences of one-character strings, so that the bytes a     *)
(* producer emits can be compared one by one.                              *)
(***************************************************************************)
EXTENDS Integers, Sequences, FiniteSets, TLC

Min(a, b) == IF a < b THEN a ELSE b

Max(a, b) == IF a < b THEN b ELSE a

\* ------------------------------------------------------------------------
\* Bounds of the multipart model

\* the largest number of parts appended to a form
MaxParts == 2

\* the largest size of the file on disk
MaxFile == 2

\* on_read is driven with buffers of 1..MaxBuf bytes, and with BigBuf bytes
MaxBuf == 3

\* a buffer large enough for the whole body of every form of the model
BigBuf == 400

BufSizes == (1..MaxBuf) \cup {BigBuf}

\* ------------------------------------------------------------------------
\* multipart_form: the string constants

content_disposition_ ==
  <<"\r", "\n", "C", "o", "n", "t", "e", "n", "t", "-", "D", "i", "s", "p", "o", "s", "i", "t", "i", "o", "n", ":", " ", "f", "o", "r", "m", "-", "d", "a", "t", "a", ";", " ", "n", "a", "m", "e", "=", "\"">>

filename_ ==
  <<";", " ", "f", "i", "l", "e", "n", "a", "m", "e", "=", "\"">>

content_type_ ==
  <<"\r", "\n", "C", "o", "n", "t", "e", "n", "t", "-", "T", "y", "p", "e", ":", " ">>

Quote == <<"\"">>

CRLF == <<"\r", "\n">>

CRLFCRLF == <<"\r", "\n", "\r", "\n">>

\* the 22 random characters generate_boundary draws; the model knows one draw
BoundaryDraws ==
  { [i \in 1..22 |-> IF i % 2 = 0 THEN "z" ELSE "7"] }

\* storage_: everything filled with '-', then [2 + 24, end - 2) overwritten
generate_boundary(draw) ==
  [i \in 1..50 |-> IF i > 26 /\ i <= 48 THEN draw[i - 26] ELSE "-"]

\* ------------------------------------------------------------------------
\* Inputs of the multipart model

Names == { <<"a">> }

\* values of text parts; the second one holds a path separator
Values == { <<"v">>, <<"p", "/", "q">> }

ContentTypes == { <<>>, <<"t">> }

Paths == { <<"d", "/", "f">> }

Digits == <<"0", "1", "2", "3", "4", "5", "6", "7", "8", "9">>

\* a file of n bytes; byte i tells its position
FileOfSize(n) == [i \in 1..n |-> Digits[(i % 10) + 1]]

\* a path names a file with a content, or nothing
NoFile == [exists |-> FALSE, content |-> <<>>]

FileStates ==
  { [exists |-> TRUE, content |-> FileOfSize(n)] : n \in 0..MaxFile }
    \cup { NoFile }

VARIABLES
  disk,       \* the file system: path -> file state
  storage_,   \* multipart_form::storage_
  parts_,     \* multipart_form::parts_
  phase,      \* "build": main appends parts; "serialize": the source runs;
              \* "idle": the form is not in use
  it_,        \* multipart_form::source::it_, an index into parts_
  step_,      \* multipart_form::source::step_
  skip_,      \* multipart_form::source::skip_
  out,        \* all the bytes on_read has produced so far
  finished,   \* the last on_read reported results::finished
  failed,     \* the last on_read reported an error in results::ec
  calls       \* 0 before the first on_read, 1 after one, 2 after more

mpvars == <<disk, storage_, parts_, phase, it_, step_, skip_, out,
            finished, failed, calls>>

VARIABLES
  vm,           \* po::variables_map: the options of the command line
  url,          \* the parameter url of request: the URL of the command line
  msg,          \* the message body (main's msg, passed by reference)
  request,      \* http_proto::request: method, target, header fields
  pc,           \* where the coroutine request stands
  conns,        \* every connection opened so far, in the order of opening
  stream,       \* request's local stream: an index into conns, 0 before
  ser,          \* the serializer: chunks of the request to write and written
  response,     \* parser.get(): the last response header read
  parser,       \* the parser's body state
  loc,          \* the locals is_redirect and need_method_change
  redirect_url, \* the local redirect_url
  referer_url,  \* the local referer_url
  output,       \* what was written to the output stream, in order
  redirects,    \* how many redirects were followed
  err,          \* the message of the exception that ended request, or ""
  exit_code     \* what main returns; -1 while it runs

reqvars == <<vm, url, msg, request, pc, conns, stream, ser, response, parser,
             loc, redirect_url, referer_url, output, redirects, err,
             exit_code>>

\* the urlencoded form of -d
VARIABLES
  body_,        \* urlencoded_form::body_
  given,        \* what was appended: each value or file content, with the
                \* bytes append_encoded added to body_ for it
  sent,         \* the body bytes handed to the serializer
  form_pc       \* "idle", "build", "sent" or "failed"

formvars == <<body_, given, sent, form_pc>>

\* the output sink of -o
VARIABLES
  cls,          \* the class of the sink: "output_stream" or "any_ostream"
  token,        \* the path the sink is built from; "" when none is given
  tty_out,      \* the operating system: standard output is a terminal
  tty_err,      \* the operating system: standard error is a terminal
  openable,     \* the operating system: a file of that path can be opened
  sink,         \* the sink as constructed
  sink_pc,      \* "idle", "start", "ready", "running" or "failed"
  created,      \* the names of the files created
  wrote         \* how many bytes went to stdout, stderr and the file

sinkvars == <<cls, token, tty_out, tty_err, openable, sink, sink_pc, created,
              wrote>>

vars == <<mpvars, reqvars, formvars, sinkvars>>

\* the urlencoded form is not in use
FormIdle ==
  /\ body_ = <<>>
  /\ given = <<>>
  /\ sent = <<>>
  /\ form_pc = "idle"

NoSink == [kind |-> "none", is_tty |-> FALSE]

NothingWritten == [stdout |-> 0, stderr |-> 0, file |-> 0]

\* the sink is not in use
SinkIdle ==
  /\ cls = ""
  /\ token = ""
  /\ tty_out = FALSE
  /\ tty_err = FALSE
  /\ openable = FALSE
  /\ sink = NoSink
  /\ sink_pc = "idle"
  /\ created = {}
  /\ wrote = NothingWritten

\* ------------------------------------------------------------------------
\* Helpers of main.cpp

\* the positions of '/' and '\' in path
SepPositions(path) == { i \in 1..Len(path) : path[i] \in {"/", "\\"} }

filename(path) ==
  IF SepPositions(path) # {}
    THEN LET pos == CHOOSE i \in SepPositions(path) :
                      \A j \in SepPositions(path) : j <= i
         IN SubSeq(path, pos + 1, Len(path))
    ELSE path

\* filesize(path) of a file that exists
filesize(path) == Len(disk[path].content)

\* std::optional<std::uint64_t> as a sequence of at most one number
HasValue(opt) == Len(opt) = 1

ValueOf(opt) == opt[1]

\* ------------------------------------------------------------------------
\* multipart_form

text_part(name, value, content_type) ==
  [name |-> name, value_or_path |-> value, content_type |-> content_type,
   file_size |-> <<>>]

file_part(name, path, content_type, size) ==
  [name |-> name, value_or_path |-> path, content_type |-> content_type,
   file_size |-> <<size>>]

part_length(part) ==
    (Len(storage_) - 2)
  + Len(content_disposition_)
  + Len(part.name)
  + 1
  + (IF part.content_type # <<>>
       THEN Len(content_type_) + Len(part.content_type) ELSE 0)
  + (IF HasValue(part.file_size)
       THEN Len(filename_) + Len(filename(part.value_or_path)) + 1
            + ValueOf(part.file_size)
       ELSE Len(part.value_or_path))
  + 4
  + 2

RECURSIVE sum_parts(_)
sum_parts(parts) ==
  IF parts = <<>> THEN 0
  ELSE part_length(Head(parts)) + sum_parts(Tail(parts))

content_length == sum_parts(parts_) + Len(storage_)

\* ------------------------------------------------------------------------
\* multipart_form::source::on_read
\*
\* The state of one call is a record: the source's members it, step, skip,
\* the room left in the buffer (mb) and the results being built (bytes, ec,
\* finished).

\* the copy lambda: ok is its return value
copy(s, sv) ==
  LET from   == Min(s.skip, Len(sv))
      copied == Min(s.mb, Len(sv) - from)
      skip1  == s.skip + copied
      s1     == [s EXCEPT !.mb = @ - copied,
                          !.bytes = @ \o SubSeq(sv, from + 1, from + copied),
                          !.skip = skip1]
  IN IF skip1 # Len(sv)
       THEN [ok |-> FALSE, s |-> s1]
       ELSE [ok |-> TRUE, s |-> [s1 EXCEPT !.skip = 0]]

\* file.read at offset skip: what is there, at most want bytes
file_read(content, offset, want) ==
  LET have == Max(0, Len(content) - offset)
      n    == Min(want, have)
  IN SubSeq(content, offset + 1, offset + n)

\* the read lambda: ok is its return value
read(s, path, size) ==
  IF ~disk[path].exists
    THEN [ok |-> FALSE, s |-> [s EXCEPT !.ec = TRUE]]
    ELSE LET got   == file_read(disk[path].content, s.skip, Min(s.mb, size))
             skip1 == s.skip + Len(got)
             s1    == [s EXCEPT !.mb = @ - Len(got),
                                !.bytes = @ \o got,
                                !.skip = skip1]
         IN IF skip1 # size
              THEN [ok |-> FALSE, s |-> s1]
              ELSE [ok |-> TRUE, s |-> [s1 EXCEPT !.skip = 0]]

IncStep(s) == [s EXCEPT !.step = @ + 1]

Loop == 12

\* The while loop with its switch. pos is the place in the code: Loop is the
\* test of the while, 0..11 are the case labels; the labels content_type and
\* end_of_header are the places 7 and 9. A failed copy or read returns rs.
RECURSIVE run(_, _)
run(pos, s) ==
  LET part == parts_[s.it]
      then(c, next) == IF c.ok THEN run(next, IncStep(c.s)) ELSE c.s
  IN CASE pos = Loop ->
            IF s.it <= Len(parts_)
              THEN IF s.step \in 0..11 THEN run(s.step, s) ELSE s
              ELSE LET c == copy(s, storage_)
                   IN IF c.ok THEN [c.s EXCEPT !.finished = TRUE] ELSE c.s
       [] pos = 0 -> then(copy(s, SubSeq(storage_, 1, Len(storage_) - 2)), 1)
       [] pos = 1 -> then(copy(s, content_disposition_), 2)
       [] pos = 2 -> then(copy(s, part.name), 3)
       [] pos = 3 -> then(copy(s, Quote), 4)
       [] pos = 4 -> IF ~HasValue(part.file_size) THEN run(7, s)
                     ELSE then(copy(s, filename_), 5)
       [] pos = 5 -> then(copy(s, filename(part.value_or_path)), 6)
       [] pos = 6 -> then(copy(s, Quote), 7)
       [] pos = 7 -> IF part.content_type = <<>> THEN run(9, s)
                     ELSE then(copy(s, content_type_), 8)
       [] pos = 8 -> then(copy(s, part.content_type), 9)
       [] pos = 9 -> then(copy(s, CRLFCRLF), 10)
       [] pos = 10 -> IF HasValue(part.file_size)
                        THEN then(read(s, part.value_or_path,
                                       ValueOf(part.file_size)), 11)
                        ELSE then(copy(s, part.value_or_path), 11)
       [] pos = 11 -> LET c == copy(s, CRLF)
                      IN IF c.ok
                           THEN run(Loop, [c.s EXCEPT !.step = 0, !.it = @ + 1])
                           ELSE c.s

\* one call of on_read with a buffer of n bytes, from the members (it, step,
\* skip)
on_read(it, step, skip, n) ==
  run(Loop, [it |-> it, step |-> step, skip |-> skip, mb |-> n,
             bytes |-> <<>>, ec |-> FALSE, finished |-> FALSE])

\* ------------------------------------------------------------------------
\* The multipart model: main builds the form, the file may change, then the
\* serializer drives the source.

\* the request is not running: the state of the request model while the
\* multipart model runs
ReqIdle ==
  /\ vm = [head |-> FALSE]
  /\ url = ""
  /\ msg = ""
  /\ request = ""
  /\ pc = "idle"
  /\ conns = <<>>
  /\ stream = 0
  /\ ser = ""
  /\ response = ""
  /\ parser = ""
  /\ loc = ""
  /\ redirect_url = ""
  /\ referer_url = ""
  /\ output = <<>>
  /\ redirects = 0
  /\ err = ""
  /\ exit_code = -1


InitMP ==
  /\ disk \in [Paths -> FileStates \ {NoFile}]
  /\ storage_ \in { generate_boundary(d) : d \in BoundaryDraws }
  /\ parts_ = <<>>
  /\ phase = "build"
  /\ it_ = 1
  /\ step_ = 0
  /\ skip_ = 0
  /\ out = <<>>
  /\ finished = FALSE
  /\ failed = FALSE
  /\ calls = 0
  /\ ReqIdle
  /\ FormIdle
  /\ SinkIdle

\* multipart_form::append_text
append_text ==
  /\ phase = "build"
  /\ Len(parts_) < MaxParts
  /\ \E name \in Names, value \in Values, ct \in ContentTypes :
       parts_' = Append(parts_, text_part(name, value, ct))
  /\ UNCHANGED <<disk, storage_, phase, it_, step_, skip_, out, finished,
                 failed, calls>>
  /\ UNCHANGED <<reqvars, formvars, sinkvars>>

\* multipart_form::append_file: the size is read now and stored
append_file ==
  /\ phase = "build"
  /\ Len(parts_) < MaxParts
  /\ \E name \in Names, path \in Paths, ct \in ContentTypes :
       /\ disk[path].exists
       /\ parts_' = Append(parts_, file_part(name, path, ct, filesize(path)))
  /\ UNCHANGED <<disk, storage_, phase, it_, step_, skip_, out, finished,
                 failed, calls>>
  /\ UNCHANGED <<reqvars, formvars, sinkvars>>

\* the environment: a file is rewritten or removed before the body is sent
ModifyFile ==
  /\ phase = "build"
  /\ \E path \in Paths, content \in FileStates :
       /\ disk[path] # content
       /\ disk' = [disk EXCEPT ![path] = content]
  /\ UNCHANGED <<storage_, parts_, phase, it_, step_, skip_, out, finished,
                 failed, calls>>
  /\ UNCHANGED <<reqvars, formvars, sinkvars>>

\* multipart_form::source::source, from message::start_serializer
StartSource ==
  /\ phase = "build"
  /\ phase' = "serialize"
  /\ it_' = 1
  /\ step_' = 0
  /\ skip_' = 0
  /\ UNCHANGED <<disk, storage_, parts_, out, finished, failed, calls>>
  /\ UNCHANGED <<reqvars, formvars, sinkvars>>

\* the serializer calls on_read with a buffer of n >= 1 bytes, until the
\* source reports finished or an error
OnRead ==
  /\ phase = "serialize"
  /\ ~finished
  /\ ~failed
  /\ \E n \in BufSizes :
       LET rs == on_read(it_, step_, skip_, n)
       IN /\ it_' = rs.it
          /\ step_' = rs.step
          /\ skip_' = rs.skip
          /\ out' = out \o rs.bytes
          /\ finished' = rs.finished
          /\ failed' = rs.ec
          /\ calls' = Min(calls + 1, 2)
  /\ UNCHANGED <<disk, storage_, parts_, phase>>
  /\ UNCHANGED <<reqvars, formvars, sinkvars>>

NextMP ==
  \/ append_text
  \/ append_file
  \/ ModifyFile
  \/ StartSource
  \/ OnRead

SpecMP == InitMP /\ [][NextMP]_vars

\* ------------------------------------------------------------------------
\* Bounds and inputs of the request model

\* the server answers at most MaxHops requests of a chain with a redirect
MaxHops == 2

\* the largest number of chunks in a response body
MaxBody == 2

\* a URL: scheme://[userinfo@]host[:port]path
Url(scheme, host, port, path) ==
  [scheme |-> scheme, userinfo |-> "", host |-> host, port |-> port,
   path |-> path]

UA == Url("http", "h", "", "/a")

\* the origin of UA, with an empty path
UA0 == Url("http", "h", "", "")

\* another host
UB == Url("http", "g", "", "/a")

\* another scheme
UC == Url("https", "h", "8443", "/a")

StartUrls == { UA }

\* a host reached with a scheme other than http and https
UF == Url("ftp", "g", "", "/a")

NoUrl == Url("", "", "", "")

\* the value of a Location header: none, a string that is no URL, a
\* relative reference, or an absolute URL
NoLocation == [kind |-> "none", url |-> NoUrl]

BadLocation == [kind |-> "garbage", url |-> NoUrl]

\* Location: /b
RelativeLocation == [kind |-> "relative", url |-> Url("", "", "", "/b")]

Absolute(u) == [kind |-> "absolute", url |-> u]

Locations == { NoLocation, BadLocation, RelativeLocation, Absolute(UA0),
               Absolute(UB), Absolute(UC), Absolute(UF) }

\* a parse that takes every Location for a URL
parse_uri_lenient(l) == [has_error |-> FALSE, value |-> l.url]

\* urls::parse_uri(s): the grammar of an absolute URI, scheme ":" hier-part;
\* a relative reference has no scheme and is an error, as is a string that
\* is no URL
parse_uri(l) ==
  IF l.kind = "absolute" THEN [has_error |-> FALSE, value |-> l.url]
  ELSE [has_error |-> TRUE, value |-> NoUrl]

Statuses == { 200, 301, 302, 303, 307, 308, 404 }

\* version and Connection: close of a response: the code reads neither
VersionClose == { <<"1.1", FALSE>>, <<"1.0", TRUE>> }

\* Set-Cookie of a response: the servers set the host-only cookie k=v with
\* Path=/ in every 302, and no cookie otherwise
SetCookie(s) == IF s = 302 THEN "k=v" ELSE ""

\* the responses of the servers: a redirect status with any Location, any
\* other status without one
Responses ==
  { [status |-> s, version |-> vc[1], close |-> vc[2], location |-> l,
     set_cookie |-> SetCookie(s)] :
      s \in Statuses \ {200, 404}, vc \in VersionClose, l \in Locations }
  \cup
  { [status |-> s, version |-> vc[1], close |-> vc[2],
     location |-> NoLocation, set_cookie |-> SetCookie(s)] :
      s \in {200, 404}, vc \in VersionClose }

NoResponse ==
  [status |-> 0, version |-> "", close |-> FALSE, location |-> NoLocation,
   set_cookie |-> ""]

\* the message bodies: none, -d a=b, -F a=v
NoBody == [kind |-> "none", len |-> 0, type |-> ""]

Messages ==
  { NoBody,
    [kind |-> "urlencoded", len |-> 3,
     type |-> "application/x-www-form-urlencoded"],
    [kind |-> "multipart", len |-> 147,
     type |-> "multipart/form-data; boundary=..."] }

\* the -H options of the command line
HeaderLists ==
  { <<>>,
    << <<"Expect", "100-continue">>, <<"Content-Encoding", "gzip">>,
       <<"Host", "x">> >> }

\* words of the command line that options_description does not describe
Undescribed == { "--fail", "--retry" }

\* the command lines of the model
Options ==
  [ head : BOOLEAN,            \* -I
    location : BOOLEAN,        \* -L
    request : {"", "HEAD", "PUT"},   \* -X
    user : {"", "u:p"},        \* -u
    referer : {"", ";auto"},   \* -e
    show_headers : BOOLEAN,    \* -i
    header : HeaderLists,      \* -H
    other : {""} \cup Undescribed ]

\* ------------------------------------------------------------------------
\* http_proto::request, as far as the program uses it

Fields == { "Host", "Accept", "User-Agent", "Content-Length", "Content-Type",
            "Referer", "Authorization", "Expect", "Content-Encoding",
            "Cookie" }

EmptyRequest ==
  [method |-> "GET", target |-> "/", fields |-> [f \in Fields |-> <<>>]]

set_method(req, m) == [req EXCEPT !.method = m]

set_target(req, t) == [req EXCEPT !.target = t]

set(req, name, value) == [req EXCEPT !.fields[name] = <<value>>]

erase(req, name) == [req EXCEPT !.fields[name] = <<>>]

set_content_length(req, n) == set(req, "Content-Length", ToString(n))

Has(req, name) == req.fields[name] # <<>>

\* ------------------------------------------------------------------------
\* Helpers of the request

\* the target taken as it stands in the URL
target_as_written(u) == u.path

\* core::string_view target(urls::url_view)
target(u) == IF u.path = "" THEN "/" ELSE u.path

\* the URL as a string, as request.set(field::referer, referer_url) sees it
url_string(u) ==
  u.scheme \o "://" \o (IF u.userinfo # "" THEN u.userinfo \o "@" ELSE "")
    \o u.host \o (IF u.port # "" THEN ":" \o u.port ELSE "") \o u.path

\* is_redirect with 307 and 308 returning what 301, 302 and 303 return
is_redirect_all_change(status) ==
  CASE status \in {301, 302, 303, 307, 308} ->
         [is_redirect |-> TRUE, need_method_change |-> TRUE]
    [] OTHER ->
         [is_redirect |-> FALSE, need_method_change |-> FALSE]

is_redirect(status) ==
  CASE status \in {301, 302, 303} ->
         [is_redirect |-> TRUE, need_method_change |-> TRUE]
    [] status \in {307, 308} ->
         [is_redirect |-> TRUE, need_method_change |-> FALSE]
    [] OTHER ->
         [is_redirect |-> FALSE, need_method_change |-> FALSE]

\* message::set_headers
set_headers(m, req) ==
  IF m.kind # "none"
    THEN set(set_content_length(set_method(req, "POST"), m.len),
             "Content-Type", m.type)
    ELSE req

\* the user's headers, set in the order given
RECURSIVE set_user_headers(_, _)
set_user_headers(req, hs) ==
  IF hs = <<>> THEN req
  ELSE set_user_headers(set(req, Head(hs)[1], Head(hs)[2]), Tail(hs))

create_request(v, m, u) ==
  LET r1 == set_method(EmptyRequest, IF v.head THEN "HEAD" ELSE "GET")
      r2 == IF v.request # "" THEN set_method(r1, v.request) ELSE r1
      r3 == set(set(set_target(r2, target(u)), "Accept", "*/*"),
                "Host", u.host)
      r4 == set_headers(m, r3)
      r5 == set(r4, "User-Agent", "Boost.Http.Io")
      r6 == IF v.referer # "" THEN set(r5, "Referer", v.referer) ELSE r5
      r7 == IF v.user # "" THEN set(r6, "Authorization", v.user) ELSE r6
  IN set_user_headers(r7, v.header)

\* message::start_serializer: the request is written as a header chunk and,
\* when the message has a body, a body chunk
start_serializer(m) ==
  [total |-> IF m.kind # "none" THEN 2 ELSE 1, written |-> 0,
   body |-> m.kind]

\* connect: the stream made for u, the i-th connection of the program
connect(u, i) ==
  [idx |-> i,
   host |-> u.host,
   service |-> IF u.port # "" THEN u.port ELSE u.scheme,
   tls |-> u.scheme = "https"]

NewConn == [sock |-> "open", req |-> "none", resp |-> "none"]

\* connect throws (resolve, connect, handshake): its frame is destroyed and
\* with it the socket it had made
FailedConn == [sock |-> "closed", req |-> "none", resp |-> "none"]

NoStream == [idx |-> 0, host |-> "", service |-> "", tls |-> FALSE]

\* the parser: body chunks parsed, body chunks consumed, message complete
FreshParser == [got |-> 0, used |-> 0, eom |-> FALSE]

NoLocals == [is_redirect |-> FALSE, need_method_change |-> FALSE]

\* the multipart form is not in use while the request model runs
MPIdle ==
  /\ disk = [p \in Paths |-> NoFile]
  /\ storage_ = <<>>
  /\ parts_ = <<>>
  /\ phase = "idle"
  /\ it_ = 1
  /\ step_ = 0
  /\ skip_ = 0
  /\ out = <<>>
  /\ finished = FALSE
  /\ failed = FALSE
  /\ calls = 0

\* ------------------------------------------------------------------------
\* The request model: main is given a command line, a URL and the message
\* built from -d or -F; it parses the command line and spawns the coroutine
\* request with create_request(vm, msg, url).

InitReq ==
  /\ MPIdle
  /\ FormIdle
  /\ SinkIdle
  /\ vm \in Options
  /\ url \in StartUrls
  /\ msg \in Messages
  /\ request = EmptyRequest
  /\ pc = "main"
  /\ conns = <<>>
  /\ stream = NoStream
  /\ ser = start_serializer(NoBody)
  /\ response = NoResponse
  /\ parser = FreshParser
  /\ loc = NoLocals
  /\ redirect_url = NoUrl
  /\ referer_url = NoUrl
  /\ output = <<>>
  /\ redirects = 0
  /\ err = ""
  /\ exit_code = -1

\* a stream whose destruction leaves the socket as it is
LeftOpen(cs, i) == cs

\* the stream is destroyed: its socket is closed
Closed(cs, i) == IF i = 0 THEN cs ELSE [cs EXCEPT ![i].sock = "closed"]

\* an exception leaves request: the coroutine frame and its stream are
\* destroyed, co_spawn's handler rethrows, main prints the message and
\* returns EXIT_FAILURE
Throw(what) ==
  /\ pc' = "failed"
  /\ conns' = Closed(conns, stream.idx)
  /\ err' = what
  /\ exit_code' = 1

\* an exception leaves request while connect has failed
ThrowConnect ==
  /\ pc' = "failed"
  /\ conns' = Append(Closed(conns, stream.idx), FailedConn)
  /\ err' = "connect"
  /\ exit_code' = 1

\* main: po::store throws for a word options_description does not describe,
\* and main returns EXIT_FAILURE; otherwise request is spawned
Main ==
  /\ pc = "main"
  /\ IF vm.other \in Undescribed
       THEN /\ pc' = "failed"
            /\ err' = "unrecognised option"
            /\ exit_code' = 1
            /\ UNCHANGED request
       ELSE /\ pc' = "connect"
            /\ request' = create_request(vm, msg, url)
            /\ UNCHANGED <<err, exit_code>>
  /\ UNCHANGED <<vm, url, msg, conns, stream, ser, response, parser, loc,
                 redirect_url, referer_url, output, redirects>>
  /\ UNCHANGED <<mpvars, formvars, sinkvars>>

\* auto stream = co_await connect(ssl_ctx, url), then the parser and the
\* serializer are made and the serializer is started
Connect ==
  /\ pc = "connect"
  /\ \/ /\ conns' = Append(conns, NewConn)
        /\ stream' = connect(url, Len(conns) + 1)
        /\ ser' = start_serializer(msg)
        /\ pc' = "write"
        /\ UNCHANGED <<err, exit_code>>
     \/ /\ ThrowConnect
        /\ UNCHANGED <<stream, ser>>
  /\ UNCHANGED <<vm, url, msg, request, response, parser, loc, redirect_url,
                 referer_url, output, redirects>>
  /\ UNCHANGED <<mpvars, formvars, sinkvars>>

\* async_write returning after its first write_some
after_first_write_some(n, total) == "read_header"

\* the next position once the serializer has written n chunks: async_write
\* returns when the serializer is done, then parser.reset(), parser.start()
after_write(n, total) == IF n = total THEN "read_header" ELSE "write"

\* co_await http_io::async_write(stream, serializer): one write_some
WriteSome ==
  /\ pc = "write"
  /\ \/ /\ ser' = [ser EXCEPT !.written = @ + 1]
        /\ pc' = after_write(ser.written + 1, ser.total)
        /\ conns' = [conns EXCEPT ![stream.idx].req =
                       IF ser.written + 1 = ser.total THEN "whole"
                       ELSE "partial"]
        /\ parser' = IF pc' = "read_header" THEN FreshParser ELSE parser
        /\ UNCHANGED <<err, exit_code>>
     \/ /\ Throw("write")
        /\ UNCHANGED <<ser, parser>>
  /\ UNCHANGED <<vm, url, msg, request, stream, response, loc, redirect_url,
                 referer_url, output, redirects>>
  /\ UNCHANGED <<mpvars, formvars, sinkvars>>

\* the status is a redirect and -L is not given
leaves_loop_on_status(l, v) == ~l.is_redirect

\* if(!is_redirect || !vm.count("location")) break;
leaves_loop(l, v) == ~l.is_redirect \/ ~v.location

\* co_await http_io::async_read_header(stream, parser): the parser holds
\* the header and the k chunks of body that came with it (the body of a
\* redirect that is followed is never pulled, parser.reset() drops it, and
\* is left out); after the first one, referer_url is made from url
ReadHeader ==
  /\ pc = "read_header"
  /\ \/ /\ \E r \in Responses :
             /\ ~leaves_loop(is_redirect(r.status), vm)
                  => redirects < MaxHops
             /\ response' = r
        /\ IF leaves_loop(is_redirect(response'.status), vm)
             THEN \E k \in 0..MaxBody, e \in BOOLEAN :
                    parser' = [got |-> k, used |-> 0, eom |-> e]
             ELSE parser' = FreshParser
        /\ conns' = [conns EXCEPT ![stream.idx].resp = "header"]
        /\ referer_url' = IF redirects = 0 THEN url ELSE referer_url
        /\ pc' = "loop"
        /\ UNCHANGED <<err, exit_code>>
     \/ /\ Throw("read header")
        /\ UNCHANGED <<response, referer_url, parser>>
  /\ UNCHANGED <<vm, url, msg, request, stream, ser, loc,
                 redirect_url, output, redirects>>
  /\ UNCHANGED <<mpvars, formvars, sinkvars>>

\* the head of the redirect loop: classify the status, leave the loop or
\* find the Location and parse it
LoopHead ==
  /\ pc = "loop"
  /\ loc' = is_redirect(response.status)
  /\ IF leaves_loop(loc', vm)
       THEN /\ pc' = "stream_headers"
            /\ UNCHANGED <<redirect_url, conns, err, exit_code>>
       ELSE IF response.location.kind = "none"
         THEN /\ Throw("Bad redirect response")
              /\ UNCHANGED redirect_url
         ELSE IF parse_uri(response.location).has_error
           THEN /\ Throw("parse_uri")
                /\ UNCHANGED redirect_url
           ELSE /\ redirect_url' = parse_uri(response.location).value
                /\ pc' = "shutdown_old"
                /\ UNCHANGED <<conns, err, exit_code>>
  /\ UNCHANGED <<vm, url, msg, request, stream, ser, response, parser,
                 referer_url, output, redirects>>
  /\ UNCHANGED <<mpvars, formvars, sinkvars>>

\* any_stream::async_shutdown: a plain socket is closed; a TLS stream sends
\* its close_notify and the socket stays open
async_shutdown(cs, st) ==
  IF st.tls THEN cs ELSE [cs EXCEPT ![st.idx].sock = "closed"]

\* co_await stream.async_shutdown(asio::as_tuple): the result is dropped
ShutdownOld ==
  /\ pc = "shutdown_old"
  /\ conns' = async_shutdown(conns, stream)
  /\ pc' = "reconnect"
  /\ UNCHANGED <<vm, url, msg, request, stream, ser, response, parser, loc,
                 redirect_url, referer_url, output, redirects, err,
                 exit_code>>
  /\ UNCHANGED <<mpvars, formvars, sinkvars>>

\* s.async_shutdown(std::move(self)) of a TLS stream sends the close_notify
\* and completes when the peer's arrives; the peer stays silent and keeps
\* the connection: no handler runs, no timer is set, request stays
\* suspended at its co_await
ShutdownWaits ==
  /\ pc \in {"shutdown_old", "shutdown"}
  /\ stream.tls
  /\ pc' = "shutdown_wait"
  /\ UNCHANGED <<vm, url, msg, request, conns, stream, ser, response, parser,
                 loc, redirect_url, referer_url, output, redirects, err,
                 exit_code>>
  /\ UNCHANGED <<mpvars, formvars, sinkvars>>

\* the method change of RFC 9110, 15.4.4
method_change(req) ==
  erase(set_content_length(set_method(req, "GET"), 0), "Content-Type")

\* a method change that does not look at the head flag
needs_change_without_head(l, v, req) == l.need_method_change

\* if(need_method_change && !vm.count("head"))
needs_change(l, v, req) == l.need_method_change /\ ~v.head

\* the request of the next hop
redirected(req, l, v, to, from) ==
  LET r1 == IF needs_change(l, v, req) THEN method_change(req) ELSE req
  IN set(set(set_target(r1, target(to)), "Host", to.host),
         "Referer", url_string(from))

\* stream = co_await connect(ssl_ctx, redirect_url): the old stream is
\* destroyed by the assignment; then the request is rewritten and the
\* serializer restarted
Reconnect ==
  /\ pc = "reconnect"
  /\ \/ /\ conns' = Append(Closed(conns, stream.idx), NewConn)
        /\ stream' = connect(redirect_url, Len(conns) + 1)
        /\ request' = redirected(request, loc, vm, redirect_url, referer_url)
        /\ msg' = IF needs_change(loc, vm, request) THEN NoBody ELSE msg
        /\ referer_url' = redirect_url
        /\ ser' = start_serializer(msg')
        /\ redirects' = redirects + 1
        /\ pc' = "write"
        /\ UNCHANGED <<err, exit_code>>
     \/ /\ ThrowConnect
        /\ UNCHANGED <<stream, request, msg, referer_url, ser, redirects>>
  /\ UNCHANGED <<vm, url, response, parser, loc, redirect_url, output>>
  /\ UNCHANGED <<mpvars, formvars, sinkvars>>

\* stream headers: the header block of the response the parser holds
StreamHeaders ==
  /\ pc = "stream_headers"
  /\ output' = IF vm.head \/ vm.show_headers
                 THEN Append(output, <<"headers", redirects, response.status>>)
                 ELSE output
  /\ pc' = IF request.method # "HEAD" THEN "stream_body" ELSE "shutdown"
  /\ UNCHANGED <<vm, url, msg, request, conns, stream, ser, response, parser,
                 loc, redirect_url, referer_url, redirects, err, exit_code>>
  /\ UNCHANGED <<mpvars, formvars, sinkvars>>

\* parser.pull_body(): the chunks parsed and not yet consumed
pull_body(p) == [i \in 1..(p.got - p.used) |-> p.used + i]

\* a loop body that leaves the pulled chunks in the parser
consume_nothing(p, n) == p

\* parser.consume_body(n)
consume_body(p, n) == [p EXCEPT !.used = @ + n]

\* stream body: every buffer of parser.pull_body() is written and consumed;
\* then the loop ends if the parser has seen the end of the message
StreamBody ==
  /\ pc = "stream_body"
  /\ LET cbs == pull_body(parser) IN
       /\ output' = output \o
            [i \in 1..Len(cbs) |-> <<"body", redirects, cbs[i]>>]
       /\ parser' = consume_body(parser, Len(cbs))
  /\ pc' = IF parser.eom THEN "shutdown" ELSE "read_some"
  /\ conns' = [conns EXCEPT ![stream.idx].resp =
                 IF parser.eom THEN "complete" ELSE "body"]
  /\ UNCHANGED <<vm, url, msg, request, stream, ser, response, loc,
                 redirect_url, referer_url, redirects, err, exit_code>>
  /\ UNCHANGED <<mpvars, formvars, sinkvars>>

\* co_await http_io::async_read_some(stream, parser, asio::as_tuple): the
\* parser is given k more chunks of body and perhaps the end of the
\* message (no error, or need_more_input); any other error is thrown
ReadSome ==
  /\ pc = "read_some"
  /\ \/ /\ \E k \in 0..(MaxBody - parser.got), e \in BOOLEAN :
             parser' = [parser EXCEPT !.got = @ + k, !.eom = e]
        /\ pc' = "stream_body"
        /\ UNCHANGED <<conns, err, exit_code>>
     \/ /\ Throw("read some")
        /\ UNCHANGED parser
  /\ UNCHANGED <<vm, url, msg, request, stream, ser, response, loc,
                 redirect_url, referer_url, output, redirects>>
  /\ UNCHANGED <<mpvars, formvars, sinkvars>>

\* clean shutdown; request returns and its stream is destroyed
Shutdown ==
  /\ pc = "shutdown"
  /\ \/ /\ pc' = "done"
        /\ conns' = Closed(conns, stream.idx)
        /\ exit_code' = 0
        /\ UNCHANGED err
     \/ Throw("shutdown")
  /\ UNCHANGED <<vm, url, msg, request, stream, ser, response, parser, loc,
                 redirect_url, referer_url, output, redirects>>
  /\ UNCHANGED <<mpvars, formvars, sinkvars>>

NextReq ==
  \/ Main
  \/ Connect
  \/ WriteSome
  \/ ReadHeader
  \/ LoopHead
  \/ ShutdownOld
  \/ ShutdownWaits
  \/ Reconnect
  \/ StreamHeaders
  \/ StreamBody
  \/ ReadSome
  \/ Shutdown

SpecReq == InitReq /\ [][NextReq]_vars

\* ------------------------------------------------------------------------
\* The urlencoded form model: main builds the form from the -d options and
\* the serializer is given its body.

MaxValue == 2

MaxFields == 2

\* the bytes of the values and of the files
FormChars == {"a", " ", "+", "%", "/"}

FormValues == UNION { [1..n -> FormChars] : n \in 0..MaxValue }

FormNames == { <<"n">> }

\* urls::pchars: unreserved, sub-delims, ":" and "@" (of the letters and
\* digits, those the model uses)
pchars ==
  {"a", "n", "-", ".", "_", "~",
   "!", "$", "&", "'", "(", ")", "*", "+", ",", ";", "=", ":", "@"}

\* the two hexadecimal digits of a byte
Hex(c) ==
  CASE c = " " -> <<"2", "0">>
    [] c = "%" -> <<"2", "5">>
    [] c = "/" -> <<"2", "F">>

\* urls::encode with space_as_plus: a byte of the set is copied, a space
\* becomes "+", any other byte its percent escape
encode_char(c) ==
  IF c \in pchars THEN <<c>>
  ELSE IF c = " " THEN <<"+">>
  ELSE <<"%">> \o Hex(c)

RECURSIVE encode(_)
encode(sv) ==
  IF sv = <<>> THEN <<>> ELSE encode_char(Head(sv)) \o encode(Tail(sv))

\* urlencoded_form::append_encoded
append_encoded(body, sv) == body \o encode(sv)

\* urlencoded_form::content_length
urlencoded_content_length == Len(body_)

InitForm ==
  /\ body_ = <<>>
  /\ given = <<>>
  /\ sent = <<>>
  /\ form_pc = "build"
  /\ MPIdle
  /\ ReqIdle
  /\ SinkIdle

\* urlencoded_form::append_text, for -d name=value and -d name
urlencoded_append_text ==
  /\ form_pc = "build"
  /\ Len(given) < MaxFields
  /\ \E name \in FormNames, value \in FormValues :
       LET b1 == IF body_ # <<>> THEN body_ \o <<"&">> ELSE body_
           b2 == b1 \o name
           b3 == IF value # <<>> THEN b2 \o <<"=">> ELSE b2
       IN /\ body_' = append_encoded(b3, value)
          /\ given' = Append(given, [value |-> value,
                                     bytes |-> SubSeq(body_', Len(b3) + 1,
                                                      Len(body_'))])
  /\ UNCHANGED <<sent, form_pc>>
  /\ UNCHANGED <<mpvars, reqvars, sinkvars>>

\* urlencoded_form::append_file, for -d @path: the file cannot be opened
\* and the exception ends main, or its content is read and appended
urlencoded_append_file ==
  /\ form_pc = "build"
  /\ Len(given) < MaxFields
  /\ \/ /\ form_pc' = "failed"
        /\ UNCHANGED <<body_, given>>
     \/ \E content \in FormValues :
          LET b1 == IF body_ # <<>> THEN body_ \o <<"&">> ELSE body_
          IN /\ body_' = append_encoded(b1, content)
             /\ given' = Append(given, [value |-> content,
                                        bytes |-> SubSeq(body_', Len(b1) + 1,
                                                         Len(body_'))])
             /\ UNCHANGED form_pc
  /\ UNCHANGED sent
  /\ UNCHANGED <<mpvars, reqvars, sinkvars>>

\* message::start_serializer: ser.start(req, f.body()), the whole of body_
urlencoded_start_serializer ==
  /\ form_pc = "build"
  /\ given # <<>>
  /\ sent' = body_
  /\ form_pc' = "sent"
  /\ UNCHANGED <<body_, given>>
  /\ UNCHANGED <<mpvars, reqvars, sinkvars>>

NextForm ==
  \/ urlencoded_append_text
  \/ urlencoded_append_file
  \/ urlencoded_start_serializer

SpecForm == InitForm /\ [][NextForm]_vars

\* ------------------------------------------------------------------------
\* The sink model: main makes the output sink from -o, spawns request, and
\* request writes to the sink. main.cpp has the sink output_stream;
\* any_iostream.cpp has the sink any_ostream.

MaxWrite == 2

\* the paths of -o; "" stands for no -o, the default-constructed sink
Tokens == {"", "-", "%", "f"}

SinkClasses == {"output_stream", "any_ostream"}

\* output_stream{}: file_ is not open, write goes to std::cout
\* output_stream{path}: file_.open(path, file_mode::write), for every path
output_stream(path, can_open) ==
  IF path = "" THEN [ok |-> TRUE, kind |-> "stdout", file |-> ""]
  ELSE IF can_open THEN [ok |-> TRUE, kind |-> "file", file |-> path]
  ELSE [ok |-> FALSE, kind |-> "none", file |-> ""]

\* any_ostream{}: &std::cout, is_tty_ from isatty(fileno(stdout))
\* any_ostream{path}: "-" is &std::cout, "%" is &std::cerr, any other path
\* an ofstream opened on it; this constructor does not set is_tty_, whose
\* value is then t, whatever the member holds
any_ostream(path, can_open, is_stdout_tty, t) ==
  IF path = ""
    THEN [ok |-> TRUE, kind |-> "stdout", file |-> "",
          is_tty |-> is_stdout_tty]
  ELSE IF path = "-"
    THEN [ok |-> TRUE, kind |-> "stdout", file |-> "", is_tty |-> t]
  ELSE IF path = "%"
    THEN [ok |-> TRUE, kind |-> "stderr", file |-> "", is_tty |-> t]
  ELSE IF can_open
    THEN [ok |-> TRUE, kind |-> "file", file |-> path, is_tty |-> t]
  ELSE [ok |-> FALSE, kind |-> "none", file |-> "", is_tty |-> t]

InitSink ==
  /\ cls \in SinkClasses
  /\ token \in Tokens
  /\ tty_out \in BOOLEAN
  /\ tty_err \in BOOLEAN
  /\ openable \in BOOLEAN
  /\ sink = NoSink
  /\ sink_pc = "start"
  /\ created = {}
  /\ wrote = NothingWritten
  /\ MPIdle
  /\ ReqIdle
  /\ FormIdle

\* main makes the sink; a constructor that throws ends main
MakeSink ==
  /\ sink_pc = "start"
  /\ \E t \in BOOLEAN :
       LET made == IF cls = "output_stream"
                     THEN output_stream(token, openable)
                     ELSE any_ostream(token, openable, tty_out, t)
       IN /\ sink_pc' = IF made.ok THEN "ready" ELSE "failed"
          /\ sink' = [kind |-> made.kind,
                      is_tty |-> IF cls = "any_ostream" THEN made.is_tty
                                 ELSE FALSE]
          /\ created' = IF made.kind = "file" THEN {made.file} ELSE {}
  /\ UNCHANGED <<cls, token, tty_out, tty_err, openable, wrote>>
  /\ UNCHANGED <<mpvars, reqvars, formvars>>

\* main spawns request: the network activity begins
SpawnRequest ==
  /\ sink_pc = "ready"
  /\ sink_pc' = "running"
  /\ UNCHANGED <<cls, token, tty_out, tty_err, openable, sink, created,
                 wrote>>
  /\ UNCHANGED <<mpvars, reqvars, formvars>>

\* output_stream::write, any_ostream::operator std::ostream&: a byte goes
\* to the file if there is one, else to the standard stream
SinkWrite ==
  /\ sink_pc = "running"
  /\ wrote.stdout + wrote.stderr + wrote.file < MaxWrite
  /\ wrote' = [wrote EXCEPT ![sink.kind] = @ + 1]
  /\ UNCHANGED <<cls, token, tty_out, tty_err, openable, sink, sink_pc,
                 created>>
  /\ UNCHANGED <<mpvars, reqvars, formvars>>

NextSink ==
  \/ MakeSink
  \/ SpawnRequest
  \/ SinkWrite

SpecSink == InitSink /\ [][NextSink]_vars

\* ------------------------------------------------------------------------
\* Properties of the multipart source (checked under SpecMP)

\* every file part's file is on disk with the size append_file stored
FilesUnchanged ==
  \A i \in 1..Len(parts_) :
    HasValue(parts_[i].file_size) =>
      /\ disk[parts_[i].value_or_path].exists
      /\ Len(disk[parts_[i].value_or_path].content)
           = ValueOf(parts_[i].file_size)

\* some file part's file has another size than append_file stored
SomeFileResized ==
  \E i \in 1..Len(parts_) :
    /\ HasValue(parts_[i].file_size)
    /\ disk[parts_[i].value_or_path].exists
    /\ Len(disk[parts_[i].value_or_path].content)
         # ValueOf(parts_[i].file_size)

\* the parts main makes of -F name=@path: files with a content type
OnlyTypedFiles ==
  \A i \in 1..Len(parts_) :
    HasValue(parts_[i].file_size) /\ parts_[i].content_type # <<>>

\* the body one call of on_read produces in a buffer that holds it all
OneCall == on_read(1, 0, 0, BigBuf)

\* C1: when the files are as they were at append_file, the bytes produced
\* up to and including the call of on_read that reports finished are as
\* many as content_length() says, whatever the buffer sizes were.
C1_LengthIsContentLength ==
  (phase = "serialize" /\ finished /\ FilesUnchanged)
    => Len(out) = content_length

\* C2: when the files are as they were at append_file, the bytes produced
\* by any sequence of on_read calls are, once the source has finished, byte
\* for byte those of one call with a buffer that holds the whole body.
C2_SameBytesAsOneCall ==
  (phase = "serialize" /\ finished /\ FilesUnchanged)
    => (OneCall.finished /\ out = OneCall.bytes)

\* C3: when the size of a file differs from the size append_file stored,
\* the source does not end as if nothing had happened: it never reports
\* finished without an error (it pads or truncates the part and reports the
\* failure), and it never produces more bytes than content_length().
C3_ResizedFileIsReported ==
  (phase = "serialize" /\ OnlyTypedFiles /\ SomeFileResized)
    => (~finished /\ Len(out) <= content_length)

\* ------------------------------------------------------------------------
\* Properties of the request (checked under SpecReq)

DefaultPort(scheme) ==
  CASE scheme = "http" -> "80"
    [] scheme = "https" -> "443"
    [] scheme = "ftp" -> "21"
    [] OTHER -> ""

\* the origin of a URL: scheme, host and port, the scheme's port by default
Origin(u) ==
  <<u.scheme, u.host, IF u.port # "" THEN u.port ELSE DefaultPort(u.scheme)>>

\* the URL the request being written goes to
CurrentUrl == IF redirects = 0 THEN url ELSE referer_url

\* the cap on followed redirects the specification gives the executor
\* (--max-redirs); the program has no such option
MaxRedirs == 1

\* C4: a request that is being written carries Authorization only if the
\* URL it goes to has the origin of the original URL (the program has no
\* option unrestricted-auth).
C4_AuthorizationOnlySameOrigin ==
  (pc = "write" /\ Has(request, "Authorization"))
    => Origin(CurrentUrl) = Origin(url)

\* C5: when a followed redirect asks for a method change and the method of
\* the request is not HEAD, the next request has the method GET, no
\* Content-Length, Content-Type, Content-Encoding or Expect, and no body.
C5_MethodChangeDropsBody ==
  [][(/\ pc = "reconnect"
      /\ pc' = "write"
      /\ loc.need_method_change
      /\ request.method # "HEAD")
       => (/\ request'.method = "GET"
           /\ ~Has(request', "Content-Length")
           /\ ~Has(request', "Content-Type")
           /\ ~Has(request', "Content-Encoding")
           /\ ~Has(request', "Expect")
           /\ msg'.kind = "none"
           /\ ser'.total = 1)]_vars

\* C6: a request whose method is HEAD, by -I or by -X HEAD, keeps the
\* method HEAD on every hop.
C6_HeadStaysHead ==
  [][request.method = "HEAD" => request'.method = "HEAD"]_vars

RedirectStatuses == {301, 302, 303, 307, 308}

C8_AtMostMaxRedirs == redirects <= MaxRedirs

\* C9: on a followed redirect the connection is reused if and only if the
\* target has the origin of the current URL, the response is HTTP/1.1 and
\* it does not say Connection: close.
C9_ReuseIffSameOrigin ==
  [][(pc = "reconnect" /\ pc' = "write")
       => ((stream'.idx = stream.idx)
             <=> (/\ Origin(redirect_url) = Origin(referer_url)
                  /\ response.version = "1.1"
                  /\ ~response.close))]_vars

\* the connections that carry a request whose response is still due
Outstanding ==
  { i \in 1..Len(conns) :
      /\ conns[i].req # "none"
      /\ conns[i].sock = "open"
      /\ conns[i].resp # "complete" }

\* C10: a response is read only from a connection whose request was written
\* whole; a request is written to a connection only when every earlier
\* connection is closed or its response was consumed to its end; at no time
\* are two requests outstanding.
C10_WriteThenReadOneAtATime ==
  /\ \A i \in 1..Len(conns) :
       conns[i].resp # "none" => conns[i].req = "whole"
  /\ \A i, j \in 1..Len(conns) :
       (i < j /\ conns[j].req # "none")
         => (conns[i].sock = "closed" \/ conns[i].resp = "complete")
  /\ Cardinality(Outstanding) <= 1

\* C10, its case: after a redirect the header of the second response is
\* read, from the second connection, the request with a body written whole
C10_Witness ==
  /\ Len(conns) = 2
  /\ conns[2].resp = "header"
  /\ ser.total = 2
  /\ ser.written = 2
  /\ conns[1].sock = "closed"

\* the Referer of the specification's auto-referer: -e ";auto"
AutoReferer == vm.referer = ";auto"

StripUserinfo(u) == [u EXCEPT !.userinfo = ""]

\* C11: on a redirect hop the Referer of the next request is the URL of the
\* previous hop without its userinfo if auto-referer is enabled; if it is
\* not, the hop leaves the Referer as it was configured (absent when none
\* was given).
C11_RefererOnlyWhenAuto ==
  [][(pc = "reconnect" /\ pc' = "write")
       => IF AutoReferer
            THEN request'.fields["Referer"]
                   = <<url_string(StripUserinfo(referer_url))>>
            ELSE request'.fields["Referer"] = request.fields["Referer"]]_vars

\* C12: when a redirect is to be followed and the response has no Location,
\* or one that is no URL, the request fails: the program exits non-zero,
\* no further connection is made and no request written, nothing has been
\* or will be written to the sink, and nothing more happens.
C12_BadLocationIsFatal ==
  /\ [][(/\ pc = "loop"
         /\ response.status \in RedirectStatuses
         /\ vm.location
         /\ response.location.kind \in {"none", "garbage"})
          => (/\ pc' = "failed"
              /\ exit_code' # 0
              /\ output' = <<>>
              /\ Len(conns') = Len(conns)
              /\ \A i \in 1..Len(conns') : conns'[i].req = conns[i].req)]_vars
  /\ [][pc # "failed"]_vars

\* C12, its case: the second response, a redirect whose Location is no URL,
\* has ended the program
C12_Witness ==
  /\ pc = "failed"
  /\ err = "parse_uri"
  /\ response.location.kind = "garbage"
  /\ redirects = 1
  /\ exit_code = 1
  /\ output = <<>>

\* a relative reference with an absolute path, resolved against base
Resolve(base, ref) == [base EXCEPT !.path = ref.path]

\* C13: a Location that is a relative reference is resolved against the URL
\* of the request that was redirected and followed: scheme, host and port
\* stay, the path is the resolved one, and it is no error.
C13_RelativeLocationResolved ==
  [][(/\ pc = "loop"
      /\ response.status \in RedirectStatuses
      /\ vm.location
      /\ response.location.kind = "relative")
       => (/\ pc' = "shutdown_old"
           /\ redirect_url' = Resolve(CurrentUrl, response.location.url))]_vars

\* the schemes a redirect may lead to
AllowedRedirectSchemes == {"http", "https"}

\* C14: every connection made for a redirect, with its name resolution, is
\* for a target whose scheme is one of the allowed ones.
C14_RedirectSchemeAllowed ==
  [][(pc = "reconnect" /\ Len(conns') > Len(conns))
       => redirect_url.scheme \in AllowedRedirectSchemes]_vars

\* the positions of request after the headers were streamed
AfterHeaders == {"stream_body", "read_some", "shutdown", "done"}

\* the header blocks and the body chunks written to the sink
HeadersOut == SelectSeq(output, LAMBDA e : e[1] = "headers")

BodyOut == SelectSeq(output, LAMBDA e : e[1] = "body")

\* C15: without -L one request is sent whatever the status of the response
\* is, no redirect is followed, and what is written to the sink is the
\* header block (with -I or -i) and the body of that first response.
C15_NoLocationOneRequest ==
  ~vm.location =>
    /\ Len(conns) <= 1
    /\ redirects = 0
    /\ pc \notin {"shutdown_old", "reconnect"}
    /\ \A i \in 1..Len(output) : output[i][2] = 0
    /\ (pc \in AfterHeaders /\ (vm.head \/ vm.show_headers))
         => (Len(output) >= 1 /\ output[1] = <<"headers", 0, response.status>>)
    /\ (pc = "done" /\ request.method # "HEAD")
         => BodyOut = [i \in 1..parser.got |-> <<"body", 0, i>>]

\* C15, its case: without -L a 301 with a Location was answered, its
\* header block and its body were written, and the program is done
C15_Witness ==
  /\ ~vm.location
  /\ vm.show_headers
  /\ pc = "done"
  /\ response.status = 301
  /\ response.location.kind = "absolute"
  /\ Len(conns) = 1
  /\ Len(output) = 2

\* C16: when request has ended, by returning or by an exception, every
\* connection it opened is closed.
C16_NoConnectionLeftOpen ==
  (pc \in {"done", "failed"})
    => \A i \in 1..Len(conns) : conns[i].sock = "closed"

\* C16, its case: after a redirect to an https URL, a read error ends the
\* request while the body is streamed
C16_Witness ==
  /\ pc = "failed"
  /\ err = "read some"
  /\ Len(conns) = 2
  /\ stream.tls
  /\ conns[2].sock = "closed"

\* C17: the exit code is 0 exactly when the request ended without an error
\* and every error gives a non-zero code; fail-on-error can be set, and
\* with it a final status of 400 or more gives the exit code 22.
C17_ExitCode ==
  (pc \in {"done", "failed"}) =>
    /\ (exit_code = 0) <=> (pc = "done")
    /\ (pc = "failed") <=> (err # "")
    /\ (vm.other = "--fail") =>
         /\ err # "unrecognised option"
         /\ (pc = "done" /\ response.status >= 400) => exit_code = 22

\* C18: with show-headers and -L, once the headers are streamed the sink
\* holds the header block of every response of the chain, in the order they
\* were received, and the last one stands before every body chunk.
C18_EveryHeaderBlockShown ==
  (vm.show_headers /\ vm.location /\ pc \in AfterHeaders) =>
    /\ Len(HeadersOut) = redirects + 1
    /\ \A i \in 1..Len(HeadersOut) : HeadersOut[i][2] = i - 1
    /\ \A i, j \in 1..Len(output) :
         (output[i][1] = "headers" /\ output[j][1] = "body") => i < j

\* the first n body chunks of the final response, in order and each once
Chunks(n) == [i \in 1..n |-> <<"body", redirects, i>>]

\* C19: after the redirect loop, a request whose method is HEAD writes no
\* body chunk; any other writes the chunks of the final response in order
\* and each once: while it streams, the sink holds the chunks consumed so
\* far; it reads more only while the message is not complete; it ends when
\* the message is complete, with every chunk written; a read error other
\* than need-more-input ends the program with a non-zero code.
C19_BodyStreamedOnce ==
  /\ (pc \in {"shutdown", "done"} /\ request.method = "HEAD")
       => BodyOut = <<>>
  /\ (pc \in {"shutdown", "done"} /\ request.method # "HEAD")
       => (parser.eom /\ BodyOut = Chunks(parser.got))
  /\ (pc \in {"stream_body", "read_some"})
       => (request.method # "HEAD" /\ BodyOut = Chunks(parser.used))
  /\ (pc = "read_some") => (~parser.eom /\ parser.used = parser.got)
  /\ (pc = "failed" /\ err = "read some")
       => (exit_code # 0 /\ BodyOut = Chunks(parser.used))

\* C19, its case: after a redirect, the two chunks of the final response
\* were written and the program is done
C19_Witness ==
  /\ pc = "done"
  /\ redirects = 1
  /\ request.method # "HEAD"
  /\ parser.got = 2
  /\ parser.eom
  /\ BodyOut = <<<<"body", 1, 1>>, <<"body", 1, 2>>>>
  /\ conns[2].resp = "complete"

\* C20: retry can be set, and with it a run does not end on a failed
\* connect while only one attempt was made for the current URL.
C20_RefusedConnectionRetried ==
  (vm.other = "--retry" /\ pc = "failed") =>
    /\ err # "unrecognised option"
    /\ err = "connect" => Len(conns) > redirects + 1

\* C21: a shutdown does not keep the request beyond its budget: request is
\* never left suspended in a shutdown whose peer does not answer, the
\* shutdown ends and request goes on.
C21_ShutdownNeverBlocks == pc # "shutdown_wait"

\* C23: the request of a hop carries in Cookie the cookies of the jar that
\* match its URL: the cookie a redirect response set for its host is sent
\* with the next request when that goes to the same host, and a request
\* for which the jar holds nothing carries no Cookie.
C23_CookiesOfEarlierHopsSent ==
  [][(pc = "reconnect" /\ pc' = "write")
       => /\ (response.set_cookie # "" /\ redirect_url.host = CurrentUrl.host)
               => request'.fields["Cookie"] = <<response.set_cookie>>
          /\ (response.set_cookie = "" /\ redirects = 0)
               => ~Has(request', "Cookie")]_vars

\* C25: the method of the first request is the custom method when one is
\* given, also with a body; without one it is POST with a body, HEAD with
\* the head flag and no body, and GET otherwise.
C25_FirstMethod ==
  (pc \in {"connect", "write"} /\ redirects = 0) =>
    request.method =
      IF vm.request # "" THEN vm.request
      ELSE IF msg.kind # "none" THEN "POST"
      ELSE IF vm.head THEN "HEAD"
      ELSE "GET"

\* C26: on a followed 307 or 308, and on any followed redirect with the
\* head flag, the next request has the method, the Content-Length and the
\* Content-Type of the previous one and the same body, which had been
\* written whole and is serialized again from its start; a message without
\* body, also one whose body a method change has dropped, stays without.
C26_BodySentAgain ==
  [][(pc = "reconnect" /\ pc' = "write")
       => /\ (response.status \in {307, 308} \/ vm.head)
               => /\ request'.method = request.method
                  /\ request'.fields["Content-Length"]
                       = request.fields["Content-Length"]
                  /\ request'.fields["Content-Type"]
                       = request.fields["Content-Type"]
                  /\ msg' = msg
                  /\ ser.written = ser.total
                  /\ ser'.total = ser.total
                  /\ ser'.body = msg.kind
                  /\ ser'.written = 0
          /\ (msg.kind = "none")
               => (msg'.kind = "none" /\ ser'.total = 1)]_vars

\* C26, its case: a POST with a body was answered by a 307, and the request
\* to the new URL is about to be written, body included
C26_Witness ==
  /\ pc = "write"
  /\ redirects = 1
  /\ response.status = 307
  /\ request.method = "POST"
  /\ msg.kind = "urlencoded"
  /\ request.fields["Content-Length"] = <<"3">>
  /\ ser = [total |-> 2, written |-> 0, body |-> "urlencoded"]

\* the user gave a Host header with -H
UserHost == \E i \in 1..Len(vm.header) : vm.header[i][1] = "Host"

\* the port a service of connect stands for
ServicePort(service) ==
  IF service \in {"http", "https", "ftp"} THEN DefaultPort(service)
  ELSE service

NoProgress(n) ==
  LET rs == on_read(it_, step_, skip_, n)
  IN rs.bytes = <<>> /\ ~rs.finished /\ ~rs.ec

\* C28: while the files are as they were at append_file, every call of
\* on_read with a non-empty buffer produces a byte or reports finished or
\* an error: the source is never in a state where a call does nothing.
C28_EveryCallProgresses ==
  (phase = "serialize" /\ ~finished /\ ~failed /\ FilesUnchanged)
    => \A n \in BufSizes : ~NoProgress(n)

\* ------------------------------------------------------------------------
\* Properties of the urlencoded form (checked under SpecForm)

\* the byte two hexadecimal digits stand for
Unhex(d) ==
  CASE d = <<"2", "0">> -> " "
    [] d = <<"2", "5">> -> "%"
    [] d = <<"2", "F">> -> "/"
    [] OTHER -> "?"

\* the decoder of application/x-www-form-urlencoded: "+" is a space, a
\* percent escape is its byte, any other byte is itself
RECURSIVE form_decode(_)
form_decode(s) ==
  IF s = <<>> THEN <<>>
  ELSE IF Head(s) = "+" THEN <<" ">> \o form_decode(Tail(s))
  ELSE IF Head(s) = "%" /\ Len(s) >= 3
    THEN <<Unhex(SubSeq(s, 2, 3))>> \o form_decode(SubSeq(s, 4, Len(s)))
  ELSE <<Head(s)>> \o form_decode(Tail(s))

\* C22: the bytes appended for a value or a file content decode to that
\* value, and content_length() is the number of body bytes sent.
C22_DecodeGivesValue ==
  /\ \A i \in 1..Len(given) : form_decode(given[i].bytes) = given[i].value
  /\ (form_pc = "sent") => Len(sent) = urlencoded_content_length

\* ------------------------------------------------------------------------
\* Properties of the sink (checked under SpecSink)

\* C24: a sink made from "-" is standard output, one made from "%" is
\* standard error, one made from any other path is a newly created file of
\* that name, and a failure to open it ends the program before request is
\* spawned; a sink made from nothing is standard output; what is written
\* goes there; the TTY flag of a sink that has one is the operating
\* system's answer for standard output and standard error, and false for a
\* file.
C24_SinkOfToken ==
  (sink_pc \in {"ready", "running", "failed"}) =>
    /\ (token \in {"", "-"}) => (sink.kind = "stdout" /\ created = {})
    /\ (token = "%") => (sink.kind = "stderr" /\ created = {})
    /\ (token \notin {"", "-", "%"}) =>
         IF openable THEN sink.kind = "file" /\ created = {token}
         ELSE sink_pc = "failed" /\ created = {}
    /\ (sink_pc = "failed") => wrote = NothingWritten
    /\ (sink_pc # "failed") =>
         \A k \in {"stdout", "stderr", "file"} :
           k # sink.kind => wrote[k] = 0
    /\ (cls = "any_ostream" /\ sink_pc # "failed") =>
         sink.is_tty = CASE sink.kind = "stdout" -> tty_out
                         [] sink.kind = "stderr" -> tty_err
                         [] OTHER -> FALSE

====
